---- MODULE Spec2Model ----
(***************************************************************************)
(* The MRIQC report server of app.py: the HTML link rewriter               *)
(* (_rewrite_html_urls), its helpers, and the Flask route serve_mriqc.     *)
(*                                                                         *)
(* Text.  A Python str is modelled as a sequence of text units.  A unit    *)
(* is a literal piece of text ("/", ".", "sub-", "figures", "https", ...)  *)
(* that no pattern of the code splits: every regular expression and every  *)
(* startswith() test of app.py matches whole units of this alphabet, so    *)
(* matching unit by unit is matching character by character on the texts   *)
(* the model draws.  The path segment "sub-001" is <<"sub-", "001">>, the  *)
(* file name "x.svg" is <<"x", ".", "svg">>, ".." is <<".", ".">>.         *)
(*                                                                         *)
(* Paths.  An absolute pathlib.Path is the sequence of its segments below  *)
(* the root "/"; a segment is a non-empty text without "/".  The on-disk   *)
(* tree has no symbolic links, so Path.resolve() is the lexical collapse   *)
(* of ".." that os.path.realpath performs.                                 *)
(***************************************************************************)
EXTENDS Integers, Sequences, FiniteSets, TLC

VARIABLES
    fs,        \* the on-disk tree: the set of regular files (absolute paths)
    dirs,      \* the directories Path.mkdir has created (the trees drawn at
               \* the start hold no empty directory)
    pc,        \* "idle", or the operation that has run: "served" (serve_mriqc),
               \* "fmriprep", "static", or the helper called (SpecPure)
    req,       \* the path part of the request being answered (a text)
    raw,       \* the bytes of the requested file when it is HTML
    content,   \* the text read from the requested file when it is HTML
    resp,      \* the response of the route
    rw,        \* the run of _rewrite_html_urls made for the response
    arg,       \* the argument of the last helper call (SpecPure)
    ret,       \* the result of the last helper call (SpecPure)
    inflight   \* the requests being handled at the same time (SpecConcurrent)

vars == <<fs, dirs, pc, req, raw, content, resp, rw, arg, ret, inflight>>

-----------------------------------------------------------------------------
(* Bounds of the input sets *)

MaxUrlDirs == 3     \* directory pieces in a generated URL or request path
MaxSegs == 4        \* segments of a path handed to the duplicate collapse
MaxUrlUnits == 5    \* units of a URL handed to the scheme repair
MaxTailDirs == 2    \* directory pieces after the prefix of a URL handed to the prefix collapse
MaxExtTail == 2     \* units after the scheme of a string handed to the external test
MaxRequests == 2    \* requests handled at the same time
MaxDotUnits == 9    \* units of a URL handed to the parent-reference collapse

-----------------------------------------------------------------------------
(* Text primitives *)

Min(S) == CHOOSE x \in S : \A y \in S : x <= y

Drop(t, n) == SubSeq(t, n + 1, Len(t))

StartsWith(t, p) == Len(t) >= Len(p) /\ SubSeq(t, 1, Len(p)) = p

\* position of the first "/" at or after i, 0 when there is none
NextSlash(t, i) ==
    LET S == {j \in i..Len(t) : t[j] = "/"}
    IN  IF S = {} THEN 0 ELSE Min(S)

\* str.lower(): the units of the alphabet with upper-case letters
Lower(u) ==
    CASE u = "HTTP" -> "http"
      [] u = "HTTPS" -> "https"
      [] u = "Data" -> "data"
      [] u = "SRC" -> "src"
      [] u = "JAVASCRIPT" -> "javascript"
      [] OTHER -> u

LowerText(t) == [i \in 1..Len(t) |-> Lower(t[i])]

IsSpace(u) == u = " "

\* str.strip()
RECURSIVE LStrip(_)
LStrip(t) == IF t # <<>> /\ IsSpace(Head(t)) THEN LStrip(Tail(t)) ELSE t

RECURSIVE RStrip(_)
RStrip(t) ==
    IF t # <<>> /\ IsSpace(t[Len(t)]) THEN RStrip(SubSeq(t, 1, Len(t) - 1)) ELSE t

Strip(t) == RStrip(LStrip(t))

\* \w: the units made of letters, digits and "_" ("sub-" begins with a word
\* character and ends with "-", which is none)
NonWordUnits == {"/", ".", ":", "#", " ", "=", "\"", "'", "<", ">", "-"}
EndsWithWordChar(u) == u \notin NonWordUnits /\ u # "sub-"

-----------------------------------------------------------------------------
(* Paths *)

DotDot == <<".", ".">>
Dot == <<".">>
SUB001 == <<"sub-", "001">>
SUB002 == <<"sub-", "002">>
FIGURES == <<"figures">>
XSVG == <<"x", ".", "svg">>
RHTML == <<"r", ".", "html">>

\* str.startswith("sub-") on a path segment
StartsWithSub(seg) == Len(seg) >= 1 /\ seg[1] = "sub-"

\* pathlib's parsing of a str: split at "/", drop empty and "." segments
RECURSIVE SplitSlash(_, _)
SplitSlash(t, cur) ==
    LET keep == IF cur = <<>> \/ cur = Dot THEN <<>> ELSE <<cur>>
    IN  IF t = <<>> THEN keep
        ELSE IF Head(t) = "/" THEN keep \o SplitSlash(Tail(t), <<>>)
        ELSE SplitSlash(Tail(t), Append(cur, Head(t)))

Segs(t) == SplitSlash(t, <<>>)

IsAbs(t) == t # <<>> /\ t[1] = "/"

\* base / str : an absolute right operand replaces the base
Join(base, t) == IF IsAbs(t) THEN Segs(t) ELSE base \o Segs(t)

\* Path.resolve() on a tree without symbolic links
RECURSIVE ResolveFrom(_, _)
ResolveFrom(done, rest) ==
    IF rest = <<>> THEN done
    ELSE IF Head(rest) = DotDot
         THEN ResolveFrom(IF done = <<>> THEN <<>> ELSE SubSeq(done, 1, Len(done) - 1),
                          Tail(rest))
         ELSE ResolveFrom(Append(done, Head(rest)), Tail(rest))

Resolve(p) == ResolveFrom(<<>>, p)

\* Path.parent
Parent(p) == IF p = <<>> THEN <<>> ELSE SubSeq(p, 1, Len(p) - 1)

\* PurePath.name of a str: the last segment, "" when there is none
Name(t) == LET s == Segs(t) IN IF s = <<>> THEN <<>> ELSE s[Len(s)]

\* Path / name : joining "" changes nothing
JoinName(p, n) == IF n = <<>> THEN p ELSE Append(p, n)

\* PurePath.as_posix() of a relative path
RECURSIVE AsPosixFrom(_)
AsPosixFrom(segs) ==
    IF Len(segs) = 1 THEN segs[1]
    ELSE segs[1] \o <<"/">> \o AsPosixFrom(Tail(segs))

AsPosix(segs) == IF segs = <<>> THEN Dot ELSE AsPosixFrom(segs)

\* str(path) of an absolute path
StrPath(p) == IF p = <<>> THEN <<"/">> ELSE <<"/">> \o AsPosixFrom(p)

RemoveAt(s, i) == SubSeq(s, 1, i - 1) \o SubSeq(s, i + 1, Len(s))

-----------------------------------------------------------------------------
(* The configured roots and the on-disk tree *)

DATASET_ROOT == <<<<"ds">>>>
DATA_ROOT == DATASET_ROOT \o <<<<"qc">>, <<"mriqc">>>>

\* a sibling of DATA_ROOT whose name starts with DATA_ROOT's name
SIBLING_ROOT == DATASET_ROOT \o <<<<"qc">>, <<"mriqc", "2">>>>

IsDir(tree, p) ==
    p = <<>> \/ \E f \in tree : Len(f) > Len(p) /\ SubSeq(f, 1, Len(p)) = p

\* what stat() finds at a path that may still hold ".." segments: every
\* segment is looked up in the directory reached so far
RECURSIVE Walk(_, _, _)
Walk(tree, cur, rest) ==
    IF rest = <<>> THEN [found |-> cur \in tree \/ IsDir(tree, cur), at |-> cur]
    ELSE IF ~IsDir(tree, cur) THEN [found |-> FALSE, at |-> cur]
    ELSE IF Head(rest) = DotDot THEN Walk(tree, Parent(cur), Tail(rest))
    ELSE Walk(tree, Append(cur, Head(rest)), Tail(rest))

\* Path.exists()
Exists(tree, p) == Walk(tree, <<>>, p).found

\* Path.is_file()
IsFile(tree, p) == Walk(tree, <<>>, p).found /\ Walk(tree, <<>>, p).at \in tree

-----------------------------------------------------------------------------
(* 4. MRIQC HTML rewriter helpers *)

ExternalPrefixes ==
    { <<"http", ":", "/", "/">>, <<"https", ":", "/", "/">>, <<"data", ":">>,
      <<"mailto", ":">>, <<"javascript", ":">>, <<"#">> }

\* the test without u.strip().lower()
IsExternalAsWritten(u) == \E p \in ExternalPrefixes : StartsWith(u, p)

\* _is_external(u)
IsExternal(u) ==
    LET l == LowerText(Strip(u)) IN \E p \in ExternalPrefixes : StartsWith(l, p)

\* the loop of _normalize_duplicate_subdirs from index i on
RECURSIVE NormalizeLoop(_, _)
NormalizeLoop(parts, i) ==
    IF i > Len(parts) - 1 THEN parts
    ELSE IF parts[i] = parts[i + 1] /\ StartsWithSub(parts[i]) THEN RemoveAt(parts, i)
    ELSE NormalizeLoop(parts, i + 1)

\* the loop without its startswith("sub-") test
RECURSIVE NormalizeAnyLoop(_, _)
NormalizeAnyLoop(parts, i) ==
    IF i > Len(parts) - 1 THEN parts
    ELSE IF parts[i] = parts[i + 1] THEN RemoveAt(parts, i)
    ELSE NormalizeAnyLoop(parts, i + 1)

NormalizeAnyDuplicate(path) == NormalizeAnyLoop(path, 1)

\* the loop run again until it removes nothing
RECURSIVE NormalizeToFixedPoint(_)
NormalizeToFixedPoint(path) ==
    IF NormalizeLoop(path, 1) = path THEN path
    ELSE NormalizeToFixedPoint(NormalizeLoop(path, 1))

\* _normalize_duplicate_subdirs(path)
NormalizeDuplicateSubdirs(path) == NormalizeLoop(path, 1)

\* path.relative_to(root) succeeds
IsRelativeTo(p, root) == Len(p) >= Len(root) /\ SubSeq(p, 1, Len(root)) = root

RelativeTo(p, root) == SubSeq(p, Len(root) + 1, Len(p))

\* the substitution without its ([^/]) group
RepairOneAnyNext(scheme, url) ==
    IF Len(url) >= 3 /\ url[1] = scheme /\ url[2] = ":" /\ url[3] = "/"
    THEN <<scheme, ":", "/", "/">> \o Drop(url, 3)
    ELSE url

\* re.sub(r"^https:/([^/])", r"https://\1", url)
RepairOne(scheme, url) ==
    IF Len(url) >= 4 /\ url[1] = scheme /\ url[2] = ":" /\ url[3] = "/" /\ url[4] # "/"
    THEN <<scheme, ":", "/", "/">> \o Drop(url, 3)
    ELSE url

RepairScheme(url) == RepairOne("http", RepairOne("https", url))

LitAt(t, i, lit) ==
    i >= 1 /\ i + Len(lit) - 1 <= Len(t) /\ SubSeq(t, i, i + Len(lit) - 1) = lit

\* sub-[^/]+/ matched at position i: the position of its "/", or 0
SubSegEnd(t, i) ==
    IF i >= 1 /\ i <= Len(t) /\ t[i] = "sub-"
    THEN LET s == NextSlash(t, i + 1) IN IF s >= i + 2 THEN s ELSE 0
    ELSE 0

CanonicalFigures == <<"sub-", "001", "/", "figures", "/">>

\* the replacement when sub-[^/]+/ ended at a (0: no match) and figures/ follows
FiguresAfter(url, a) ==
    IF a > 0 /\ LitAt(url, a + 1, <<"figures", "/">>)
    THEN CanonicalFigures \o Drop(url, a + 2)
    ELSE url

\* re.sub(r"^<lead>sub-[^/]+/figures/", "sub-001/figures/", url)
SubFiguresPrefix(lead, url) ==
    FiguresAfter(url, IF LitAt(url, 1, lead) THEN SubSegEnd(url, Len(lead) + 1) ELSE 0)

\* ^\./sub-[^/]+/\.\./\.\./ matched up to a (0: no match): the end of the
\* second sub-[^/]+/
SecondSubject(url, a) ==
    IF a > 0 /\ LitAt(url, a + 1, <<".", ".", "/", ".", ".", "/">>)
    THEN SubSegEnd(url, a + 7)
    ELSE 0

\* re.sub(r"^\./sub-[^/]+/\.\./\.\./sub-[^/]+/figures/", "sub-001/figures/", url)
CrossSubjectPrefix(url) ==
    FiguresAfter(url,
        SecondSubject(url, IF LitAt(url, 1, <<".", "/">>) THEN SubSegEnd(url, 3) ELSE 0))

\* lines 177-179 without line 180
CollapseDottedPrefixes(url) ==
    SubFiguresPrefix(<<".", "/">>,
        SubFiguresPrefix(<<".", ".", "/">>, CrossSubjectPrefix(url)))

\* lines 177-180
CollapseKnownBadPrefixes(url) ==
    SubFiguresPrefix(<<>>,
        SubFiguresPrefix(<<".", "/">>,
            SubFiguresPrefix(<<".", ".", "/">>, CrossSubjectPrefix(url))))

\* the end of the run of "../" that starts at i
RECURSIVE ParentRunEnd(_, _)
ParentRunEnd(t, i) ==
    IF LitAt(t, i, <<".", ".", "/">>) THEN ParentRunEnd(t, i + 3) ELSE i

\* re.sub(r"(\.\./)+", "../", url)
RECURSIVE CollapseFrom(_, _)
CollapseFrom(t, i) ==
    IF i > Len(t) THEN <<>>
    ELSE IF LitAt(t, i, <<".", ".", "/">>)
         THEN <<".", ".", "/">> \o CollapseFrom(t, ParentRunEnd(t, i))
         ELSE <<t[i]>> \o CollapseFrom(t, i + 1)

\* re.sub(r"(\.\./){2}", "../", url)
RECURSIVE CollapsePairsFrom(_, _)
CollapsePairsFrom(t, i) ==
    IF i > Len(t) THEN <<>>
    ELSE IF LitAt(t, i, <<".", ".", "/", ".", ".", "/">>)
         THEN <<".", ".", "/">> \o CollapsePairsFrom(t, i + 6)
         ELSE <<t[i]>> \o CollapsePairsFrom(t, i + 1)

CollapsePairs(url) == CollapsePairsFrom(url, 1)

\* line 181
CollapseParentRefs(url) == CollapseFrom(url, 1)

\* the inline loop of repl (lines 184-189) from index i on
RECURSIVE InlineLoop(_, _)
InlineLoop(parts, i) ==
    IF i > Len(parts) - 1 THEN parts
    ELSE IF StartsWithSub(parts[i]) /\ i + 1 <= Len(parts) /\ parts[i + 1] = parts[i]
         THEN RemoveAt(parts, i)
    ELSE InlineLoop(parts, i + 1)

\* the inline loop with the duplicate looked for after the first segment only
InlineNormalizeTail(path) ==
    IF path = <<>> THEN path ELSE <<Head(path)>> \o InlineLoop(Tail(path), 1)

\* lines 184-189
InlineNormalize(path) == InlineLoop(path, 1)

\* next((p for p in html_path.parts if p.startswith("sub-")), "sub-001")
FallbackSubject(html_path) ==
    LET S == {i \in 1..Len(html_path) : StartsWithSub(html_path[i])}
    IN  IF S = {} THEN SUB001 ELSE html_path[Min(S)]

-----------------------------------------------------------------------------
(* _ATTR_PATTERN and _rewrite_html_urls *)

Quotes == {"\"", "'"}
AttrNames == {"src", "href", "data"}

RECURSIVE SkipSpaces(_, _)
SkipSpaces(t, i) == IF i <= Len(t) /\ IsSpace(t[i]) THEN SkipSpaces(t, i + 1) ELSE i

NextQuote(t, i) ==
    LET S == {j \in i..Len(t) : t[j] \in Quotes}
    IN  IF S = {} THEN 0 ELSE Min(S)

NoMatch(i) ==
    [ok |-> FALSE, start |-> i, end |-> i, attr |-> "", url |-> <<>>, text |-> <<>>]

\* attr at i, "=" at j, the opening quote at k, the next quote at e (0: none)
MatchParts(t, i, j, k, e) ==
    IF /\ i = 1 \/ ~EndsWithWordChar(t[i - 1])
       /\ Lower(t[i]) \in AttrNames
       /\ j <= Len(t) /\ t[j] = "="
       /\ k <= Len(t) /\ t[k] \in Quotes
       /\ e > k + 1 /\ t[e] = t[k]
    THEN [ok |-> TRUE, start |-> i, end |-> e, attr |-> t[i],
          url |-> SubSeq(t, k + 1, e - 1), text |-> SubSeq(t, i, e)]
    ELSE NoMatch(i)

MatchFromQuote(t, i, j, k) == MatchParts(t, i, j, k, NextQuote(t, k + 1))

MatchFromEq(t, i, j) == MatchFromQuote(t, i, j, SkipSpaces(t, j + 1))

\* _ATTR_PATTERN tried at position i:
\*   (?P<attr>\b(?:src|href|data)\b)\s*=\s*(['"])(?P<url>[^'"]+)\2   (IGNORECASE)
MatchAttrAt(t, i) == MatchFromEq(t, i, SkipSpaces(t, i + 1))

\* the matches after the attempt m at position i
RECURSIVE MatchesFrom(_, _)
MatchesAfter(t, i, m) ==
    IF m.ok THEN <<m>> \o MatchesFrom(t, m.end + 1) ELSE MatchesFrom(t, i + 1)

\* the non-overlapping matches of _ATTR_PATTERN, leftmost first, from i on
MatchesFrom(t, i) ==
    IF i > Len(t) THEN <<>> ELSE MatchesAfter(t, i, MatchAttrAt(t, i))

Matches(t) == MatchesFrom(t, 1)

CanonicalPrefix == <<"/", "mriqc_files", "/">>

Emit(attr, url) == <<attr, "=", "\"">> \o url \o <<"\"">>

\* lines 172-173
ReplScheme(m) == RepairScheme(Strip(m.url))

\* lines 177-181
ReplCollapse(url) == CollapseParentRefs(CollapseKnownBadPrefixes(url))

\* lines 183-189: base_dir is html_path.parent.resolve()
ReplPrimary(url, html_path) ==
    InlineNormalize(Resolve(Join(Resolve(Parent(html_path)), url)))

\* line 193
ReplAlt(url, html_path) ==
    JoinName(DATA_ROOT \o <<FallbackSubject(html_path), FIGURES>>, Name(url))

\* line 200: full.relative_to(DATA_ROOT) raises ValueError when full is not
\* under DATA_ROOT
ReplInBounds(full) == IsRelativeTo(full, DATA_ROOT)

\* line 197: the text of app.logger.warning(f"... Missing after rewrite: {url}")
MissingAfterRewrite(url) == <<"Missing after rewrite: ">> \o url

Link(m, url, kind, full, rel, out) ==
    [orig |-> m.text, attr |-> m.attr, raw |-> m.url, url |-> url, kind |-> kind,
     full |-> full, rel |-> rel, out |-> out, warned |-> kind = "unresolved",
     log |-> IF kind = "unresolved" THEN MissingAfterRewrite(url) ELSE <<>>]

\* lines 200-201
ReplEmit(m, url, kind, full) ==
    IF ~ReplInBounds(full) THEN Link(m, url, "raise", full, <<>>, <<>>)
    ELSE Link(m, url, kind, full, RelativeTo(full, DATA_ROOT),
              Emit(m.attr, CanonicalPrefix \o AsPosix(RelativeTo(full, DATA_ROOT))))

\* lines 191-198 with the fallback path tested first
ReplResolveFallbackFirst(m, url, primary, alt, tree) ==
    IF Exists(tree, alt) THEN ReplEmit(m, url, "fallback", alt)
    ELSE IF Exists(tree, primary) THEN ReplEmit(m, url, "primary", primary)
    ELSE Link(m, url, "unresolved", <<>>, <<>>, m.text)

\* lines 191-198
ReplResolve(m, url, primary, alt, tree) ==
    IF Exists(tree, primary) THEN ReplEmit(m, url, "primary", primary)
    ELSE IF Exists(tree, alt) THEN ReplEmit(m, url, "fallback", alt)
    ELSE Link(m, url, "unresolved", <<>>, <<>>, m.text)

\* lines 183-193
ReplInternal(m, url, html_path, tree) ==
    ReplResolve(m, url, ReplPrimary(url, html_path), ReplAlt(url, html_path), tree)

\* lines 174-181
ReplRepaired(m, url, html_path, tree) ==
    IF IsExternal(url) THEN Link(m, url, "external", <<>>, <<>>, Emit(m.attr, url))
    ELSE ReplInternal(m, ReplCollapse(url), html_path, tree)

\* repl with the external test of lines 174-175 made before the scheme repair
\* of lines 172-173
ReplExternalFirst(m, html_path, tree) ==
    IF IsExternal(Strip(m.url))
    THEN Link(m, ReplScheme(m), "external", <<>>, <<>>, Emit(m.attr, ReplScheme(m)))
    ELSE ReplInternal(m, ReplCollapse(ReplScheme(m)), html_path, tree)

\* repl(m): the replacement of one match, or the exception it raises
Repl(m, html_path, tree) == ReplRepaired(m, ReplScheme(m), html_path, tree)

\* _ATTR_PATTERN.sub(repl, html_text): the text between and after the matches
\* is copied, each match gives way to its replacement
RECURSIVE Substitute(_, _, _, _)
Substitute(t, i, ms, outs) ==
    IF ms = <<>> THEN SubSeq(t, i, Len(t))
    ELSE SubSeq(t, i, Head(ms).start - 1) \o Head(outs)
         \o Substitute(t, Head(ms).end + 1, Tail(ms), Tail(outs))

\* re.sub(r'(sub-[^/]+/)sub-[^/]+/', r'\1', rewritten) from position i on
RECURSIVE CleanupFrom(_, _)
\* the first group ended at a, the second at b (0: no match)
CleanupAt(t, i, a, b) ==
    IF b > 0 THEN SubSeq(t, i, a) \o CleanupFrom(t, b + 1)
    ELSE <<t[i]>> \o CleanupFrom(t, i + 1)

CleanupFirst(t, i, a) == CleanupAt(t, i, a, IF a > 0 THEN SubSegEnd(t, a + 1) ELSE 0)

CleanupFrom(t, i) == IF i > Len(t) THEN <<>> ELSE CleanupFirst(t, i, SubSegEnd(t, i))

FinalCleanup(t) == CleanupFrom(t, 1)

\* re.sub calls repl for the matches in order, so an exception ends the call
\* at the first match that raises: the result holds the matches handled up to
\* and including that one.
RECURSIVE ReplAll(_, _, _)
ReplRest(r, ms, html_path, tree) ==
    IF r.kind = "raise" THEN <<r>> ELSE <<r>> \o ReplAll(ms, html_path, tree)

ReplAll(ms, html_path, tree) ==
    IF ms = <<>> THEN <<>>
    ELSE ReplRest(Repl(Head(ms), html_path, tree), Tail(ms), html_path, tree)

Raised(links) == links # <<>> /\ links[Len(links)].kind = "raise"

\* line 204
Cleaned(links, rewritten) ==
    [ran |-> TRUE, raised |-> FALSE, links |-> links, subst |-> rewritten,
     text |-> FinalCleanup(rewritten)]

\* line 203
Substituted(html_text, ms, links) ==
    IF Raised(links)
    THEN [ran |-> TRUE, raised |-> TRUE, links |-> links, subst |-> <<>>, text |-> <<>>]
    ELSE Cleaned(links, Substitute(html_text, 1, ms, [i \in 1..Len(links) |-> links[i].out]))

RewriteMatches(html_text, ms, html_path, tree) ==
    Substituted(html_text, ms, ReplAll(ms, html_path, tree))

\* _rewrite_html_urls(html_text, html_path)
RewriteHtmlUrls(html_text, html_path, tree) ==
    RewriteMatches(html_text, Matches(html_text), html_path, tree)

NoRewrite == [ran |-> FALSE, raised |-> FALSE, links |-> <<>>, subst |-> <<>>, text |-> <<>>]

-----------------------------------------------------------------------------
(* 5. Flask routes: _send_any_file and serve_mriqc *)

\* mimetypes.guess_type(str(full)): decided by the extension of the name
GuessType(p) ==
    LET n == IF p = <<>> THEN <<>> ELSE p[Len(p)]
    IN  IF Len(n) >= 3 /\ n[Len(n) - 1] = "."
        THEN CASE n[Len(n)] = "html" -> "text/html"
               [] n[Len(n)] = "svg" -> "image/svg+xml"
               [] OTHER -> "none"
        ELSE "none"

\* the bytes send_file streams for a regular file
BytesOf(p) == <<"bytes of ">> \o StrPath(p)

NoFile == <<<<"-">>>>

Answer(status, file, mime, body, warned) ==
    [status |-> status, file |-> file, mime |-> mime, body |-> body, warned |-> warned]

\* lines 213-214: an exception of the rewriter is not caught, Flask answers 500
HtmlAnswer(full, r) ==
    [answer |-> IF r.raised THEN Answer(500, full, "none", <<>>, FALSE)
                ELSE Answer(200, full, "text/html", r.text, FALSE),
     rewrite |-> r]

\* a byte that is no part of a valid UTF-8 sequence
InvalidByte == "<0xFF>"

ValidUnit(u) == u # InvalidByte

\* line 212: full.read_text(encoding="utf-8", errors="ignore") leaves the
\* bytes that do not decode out of the text
ReadText(bytes) == SelectSeq(bytes, ValidUnit)

\* _send_any_file(full); txt holds the bytes of the file at full
SendAnyFile(full, txt, tree) ==
    IF ~Exists(tree, full) \/ ~IsFile(tree, full)
    THEN [answer |-> Answer(404, full, "none", <<>>, TRUE), rewrite |-> NoRewrite]
    ELSE IF GuessType(full) = "text/html"
    THEN HtmlAnswer(full, RewriteHtmlUrls(ReadText(txt), full, tree))
    ELSE [answer |-> Answer(200, full, GuessType(full), BytesOf(full), FALSE),
          rewrite |-> NoRewrite]

\* line 222 without line 223
ServeTargetRaw(relpath) == Resolve(Join(DATA_ROOT, relpath))

\* lines 222-223
ServeTarget(relpath) == NormalizeDuplicateSubdirs(Resolve(Join(DATA_ROOT, relpath)))

\* the bounds test as a test on the strings
ServeInBoundsByPrefix(full) == StartsWith(StrPath(full), StrPath(DATA_ROOT))

\* lines 224-227: abort(403) unless full.relative_to(DATA_ROOT) succeeds
ServeInBounds(full) == IsRelativeTo(full, DATA_ROOT)

\* the existence test of line 207 made before the bounds test of lines 224-227
ServeFullExistenceFirst(full, txt, tree) ==
    IF ~Exists(tree, full) \/ ~IsFile(tree, full)
    THEN [answer |-> Answer(404, full, "none", <<>>, TRUE), rewrite |-> NoRewrite]
    ELSE IF ~ServeInBounds(full)
    THEN [answer |-> Answer(403, NoFile, "none", <<>>, FALSE), rewrite |-> NoRewrite]
    ELSE SendAnyFile(full, txt, tree)

\* lines 224-229 with the warning of line 208 logged before abort(403) as well
ServeFullWarnOnReject(full, txt, tree) ==
    IF ~ServeInBounds(full)
    THEN [answer |-> Answer(403, NoFile, "none", <<>>, TRUE), rewrite |-> NoRewrite]
    ELSE SendAnyFile(full, txt, tree)

\* lines 224-229
ServeFull(full, txt, tree) ==
    IF ~ServeInBounds(full)
    THEN [answer |-> Answer(403, NoFile, "none", <<>>, FALSE), rewrite |-> NoRewrite]
    ELSE SendAnyFile(full, txt, tree)

\* serve_mriqc(relpath): the answer, and the run of the rewriter made for it
ServeMriqcRun(relpath, txt, tree) == ServeFull(ServeTarget(relpath), txt, tree)

\* the request reaches line 212: full.read_text() is called
ReadsHtml(full, tree) ==
    ServeInBounds(full) /\ IsFile(tree, full) /\ GuessType(full) = "text/html"

-----------------------------------------------------------------------------
(* 5. Flask routes: serve_fmriprep and serve_static *)

\* flask.send_file(path): the file is opened and streamed; open() of a
\* directory raises IsADirectoryError, which Flask answers with 500
SendFile(full, tree) ==
    IF IsFile(tree, full)
    THEN Answer(200, full, GuessType(full), BytesOf(Walk(tree, <<>>, full).at), FALSE)
    ELSE Answer(500, full, "none", <<>>, FALSE)

FMRIPREP_ROOT == DATASET_ROOT \o <<<<"derivatives">>, <<"fmriprep">>>>

\* line 244: the path is joined and never resolved, ".." segments stay in it
FmriprepTarget(filename) == Join(FMRIPREP_ROOT, filename)

\* line 246: f"File not found: {full}"
NotFoundText(full) == <<"File not found: ">> \o StrPath(full)

\* werkzeug's page for abort(404)
GenericNotFoundPage == <<"<!doctype html>", "<title>", "404 Not Found", "</title>">>

\* lines 245-246 written with abort(404)
FmriprepAbort(full, tree) ==
    IF ~Exists(tree, full)
    THEN Answer(404, full, "text/html", GenericNotFoundPage, FALSE)
    ELSE SendFile(full, tree)

\* lines 245-247: a returned (str, 404) is sent with Flask's default mimetype
FmriprepAnswer(full, tree) ==
    IF ~Exists(tree, full)
    THEN Answer(404, full, "text/html", NotFoundText(full), FALSE)
    ELSE SendFile(full, tree)

\* serve_fmriprep(filename)
ServeFmriprepAnswer(filename, tree) == FmriprepAnswer(FmriprepTarget(filename), tree)

\* line 260: Path(os.environ.get("FLUX_DATASET_ROOT", ...)).resolve()
STATIC_ROOT == DATASET_ROOT

\* a sibling of the dataset root whose name starts with the root's name
STATIC_SIBLING == <<<<"ds", "2">>>>

\* line 261
StaticTarget(subpath) == Resolve(Join(STATIC_ROOT, subpath))

\* line 262: str(full_path).startswith(str(root))
StaticInBounds(full_path) == StartsWith(StrPath(full_path), StrPath(STATIC_ROOT))

\* lines 262-267
StaticAnswer(full_path, tree) ==
    IF ~StaticInBounds(full_path) THEN Answer(403, NoFile, "none", <<>>, FALSE)
    ELSE IF ~Exists(tree, full_path) THEN Answer(404, full_path, "none", <<>>, FALSE)
    ELSE SendFile(full_path, tree)

\* serve_static(subpath)
ServeStaticAnswer(subpath, tree) == StaticAnswer(StaticTarget(subpath), tree)

-----------------------------------------------------------------------------
(* Inputs *)

F_fig1 == DATA_ROOT \o <<SUB001, FIGURES, XSVG>>
F_fig2 == DATA_ROOT \o <<SUB002, FIGURES, XSVG>>
F_adj == DATA_ROOT \o <<SUB001, SUB002, XSVG>>
F_dup == DATA_ROOT \o <<SUB001, SUB001, XSVG>>
F_top == DATA_ROOT \o <<XSVG>>
F_rep1 == DATA_ROOT \o <<SUB001, RHTML>>
F_rep0 == DATA_ROOT \o <<RHTML>>
F_rep2 == DATA_ROOT \o <<SUB002, RHTML>>
F_out == <<<<"etc">>, <<"passwd">>>>
F_sib == SIBLING_ROOT \o <<XSVG>>
F_fp == FMRIPREP_ROOT \o <<XSVG>>
F_fpfig == FMRIPREP_ROOT \o <<SUB001, FIGURES, XSVG>>
F_dsib == STATIC_SIBLING \o <<XSVG>>

Trees ==
    { {},
      {F_fig1, F_rep1, F_rep0},
      {F_fig1, F_fig2, F_adj, F_rep1, F_rep0, F_rep2, F_fp, F_fpfig},
      {F_fig1, F_top, F_rep1, F_out, F_sib, F_fp, F_dsib},
      {F_fig2, F_dup, F_rep0, F_out} }

T(seg) == seg \o <<"/">>

DirPieces == { T(DotDot), T(Dot), T(SUB001), T(SUB002), T(FIGURES) }
Leaves == { XSVG, DotDot, <<>> }

RECURSIVE DirSeqs(_)
DirSeqs(n) ==
    IF n = 0 THEN {<<>>}
    ELSE LET S == DirSeqs(n - 1) IN S \cup {s \o d : s \in S, d \in DirPieces}

GenPaths == {d \o l : d \in DirSeqs(MaxUrlDirs), l \in Leaves} \ {<<>>}

StrRoot == StrPath(DATA_ROOT) \o <<"/">>

ExtraUrls ==
    { <<"/", "etc", "/", "passwd">>,
      <<"/", "/", "etc", "/", "passwd">>,
      StrRoot \o T(SUB001) \o T(FIGURES) \o XSVG,
      StrRoot \o T(SUB001) \o T(SUB002) \o XSVG,
      StrPath(SIBLING_ROOT) \o <<"/">> \o XSVG,
      T(DotDot) \o <<"mriqc", "2", "/">> \o XSVG,
      CanonicalPrefix \o T(SUB001) \o T(FIGURES) \o XSVG,
      CanonicalPrefix \o T(SUB002) \o T(FIGURES) \o XSVG,
      CanonicalPrefix \o XSVG,
      T(Dot) \o T(SUB001) \o T(DotDot) \o T(DotDot) \o T(SUB002) \o T(FIGURES) \o XSVG,
      <<"https", ":", "/", "/", "h", "/">> \o T(SUB001) \o T(SUB002) \o XSVG,
      <<"https", ":", "/", "/", "h", "/">> \o XSVG,
      <<"https", ":", "/", "h", "/">> \o XSVG,
      <<"HTTP", ":", "/", "/", "h", "/">> \o XSVG,
      <<" ", "https", ":", "/", "/", "h", "/", " ">>,
      <<"#", "top">>,
      <<"data", ":", "x">>,
      <<"mailto", ":", "h">>,
      <<"javascript", ":", "x">>,
      <<" ">> \o T(SUB001) \o T(FIGURES) \o XSVG \o <<" ">> }

Urls == GenPaths \cup ExtraUrls

Img(attr, eq, q, u) == <<"<", "img", " ", attr>> \o eq \o <<q>> \o u \o <<q, ">">>

Doc1(u) == Img("src", <<"=">>, "\"", u)

FewUrls ==
    { T(SUB001) \o T(SUB002) \o XSVG,
      T(FIGURES) \o XSVG,
      <<"n", ".", "svg">>,
      <<"/", "etc", "/", "passwd">>,
      <<"https", ":", "/", "/", "h", "/">> \o T(SUB001) \o T(SUB002) \o XSVG,
      T(DotDot) \o T(SUB001) \o T(FIGURES) \o XSVG }

ExtraDocs ==
    {Img("href", <<"=">>, "'", u) : u \in FewUrls}
    \cup {Img("SRC", <<" ", "=", " ">>, "\"", u) : u \in FewUrls}
    \cup {Img("data", <<"=">>, "\"", u) : u \in FewUrls}
    \cup {Doc1(u) \o Doc1(v) : u, v \in FewUrls}
    \cup {Doc1(u) \o <<"<", "p", ">">> \o T(SUB001) \o T(SUB002) \o <<"<", "/", "p", ">">>
            : u \in FewUrls}
    \cup { Doc1(T(SUB001) \o SUB002)
             \o Doc1(<<"https", ":", "/", "/", "h", "/">> \o T(DotDot) \o T(DotDot)
                      \o T(DotDot) \o T(DotDot) \o XSVG) }
    \cup { <<"<", "p", ">", "text", "<", "/", "p", ">">>,
           <<"<", "img", " ", "xsrc", "=", "\"">> \o XSVG \o <<"\"", ">">>,
           <<"<", "img", " ", "src", "=", "\"">> \o XSVG \o <<"'", ">">> }

\* documents with bytes that are not valid UTF-8
BadDocs ==
    { <<InvalidByte>> \o Doc1(XSVG),
      Doc1(<<"x", InvalidByte, ".", "svg">>),
      Doc1(T(SUB001) \o <<InvalidByte>> \o T(SUB002) \o XSVG),
      <<"<", "p", ">", "text", InvalidByte, InvalidByte, "<", "/", "p", ">">> }

Docs == {Doc1(u) : u \in Urls} \cup ExtraDocs \cup BadDocs

HtmlRelpaths ==
    { RHTML, T(SUB001) \o RHTML, T(SUB001) \o T(SUB001) \o RHTML }

ExtraRelpaths ==
    { T(DotDot) \o <<"mriqc", "2", "/">> \o XSVG,
      T(DotDot) \o T(DotDot) \o T(DotDot) \o <<"etc", "/", "passwd">>,
      T(DotDot) \o T(DotDot) \o T(DotDot) \o T(DotDot) \o <<"etc", "/", "passwd">>,
      <<"/", "etc", "/", "passwd">>,
      T(SUB001) \o T(SUB001) \o T(SUB001) \o XSVG,
      T(SUB002) \o T(SUB002) \o T(FIGURES) \o XSVG,
      T(SUB002) \o RHTML }

Relpaths == GenPaths \cup HtmlRelpaths \cup ExtraRelpaths

NSVG == <<"n", ".", "svg">>

\* the filenames asked of /fmriprep_files
Filenames ==
    GenPaths
    \cup { NSVG,
           T(<<"n">>) \o T(DotDot) \o XSVG,
           T(DotDot) \o T(DotDot) \o <<"qc", "/", "mriqc", "/">> \o T(SUB001) \o T(FIGURES) \o XSVG,
           T(DotDot) \o T(DotDot) \o T(DotDot) \o <<"etc", "/", "passwd">> }

\* the subpaths asked of /static
Subpaths ==
    GenPaths
    \cup {<<"qc", "/", "mriqc", "/">> \o d \o l : d \in DirSeqs(1), l \in Leaves}
    \cup { NSVG,
           <<"derivatives", "/", "fmriprep", "/">> \o XSVG,
           T(DotDot) \o <<"ds", "2", "/">> \o XSVG,
           T(DotDot) \o <<"ds", "2", "/">> \o NSVG,
           T(DotDot) \o <<"ds", "2">>,
           T(DotDot) \o <<"ds", "/", "qc", "/", "mriqc", "/">> \o RHTML,
           T(DotDot) \o <<"etc", "/", "passwd">>,
           T(DotDot) \o <<"etc", "/">> \o NSVG }

\* the bytes the requested file may hold
ContentsFor(relpath, tree) ==
    IF ReadsHtml(ServeTarget(relpath), tree) THEN Docs ELSE {<<>>}

-----------------------------------------------------------------------------
(* The server *)

NoAnswer == Answer(0, NoFile, "none", <<>>, FALSE)

Init ==
    /\ fs \in Trees
    /\ dirs = {}
    /\ pc = "idle"
    /\ req = <<>>
    /\ raw = <<>>
    /\ content = <<>>
    /\ inflight = <<>>
    /\ resp = NoAnswer
    /\ rw = NoRewrite
    /\ arg = <<>>
    /\ ret = <<>>

\* one GET /mriqc_files/<relpath>
ServeMriqc ==
    /\ pc = "idle"
    /\ \E relpath \in Relpaths : \E txt \in ContentsFor(relpath, fs) :
          \E run \in {ServeMriqcRun(relpath, txt, fs)} :
              /\ req' = relpath
              /\ raw' = txt
              /\ content' = ReadText(txt)
              /\ resp' = run.answer
              /\ rw' = run.rewrite
    /\ pc' = "served"
    /\ UNCHANGED <<fs, dirs, inflight, arg, ret>>

\* one GET /fmriprep_files/<filename>
ServeFmriprep ==
    /\ pc = "idle"
    /\ \E filename \in Filenames :
          /\ req' = filename
          /\ resp' = ServeFmriprepAnswer(filename, fs)
    /\ pc' = "fmriprep"
    /\ UNCHANGED <<fs, dirs, raw, inflight, content, rw, arg, ret>>

\* one GET /static/<subpath>
ServeStatic ==
    /\ pc = "idle"
    /\ \E subpath \in Subpaths :
          /\ req' = subpath
          /\ resp' = ServeStaticAnswer(subpath, fs)
    /\ pc' = "static"
    /\ UNCHANGED <<fs, dirs, raw, inflight, content, rw, arg, ret>>

Next == ServeMriqc \/ ServeFmriprep \/ ServeStatic

Spec == Init /\ [][Next]_vars

-----------------------------------------------------------------------------
(* serve_mriqc under concurrent requests: every request runs the lines of   *)
(* serve_mriqc and _send_any_file on its own locals, one step at a time,    *)
(* in any interleaving with the others.                                     *)

Ids == 1..MaxRequests

ConcRelpaths ==
    { T(SUB001) \o RHTML,
      T(SUB001) \o T(FIGURES) \o XSVG,
      T(SUB002) \o T(SUB002) \o T(FIGURES) \o XSVG,
      NSVG,
      T(DotDot) \o <<"mriqc", "2", "/">> \o XSVG }

\* what every HTML file of the tree holds
ConcDocs ==
    { Doc1(NSVG) \o Doc1(T(FIGURES) \o XSVG),
      Doc1(<<"/", "etc", "/", "passwd">>) }

NotStarted == [pc |-> "idle", relpath |-> <<>>, full |-> <<>>, txt |-> <<>>, answer |-> NoAnswer]

\* the local variable full of request 1, read by every request
TargetShared(fl, i) == fl[1].full

\* the local variable full of request i
TargetOf(fl, i) == fl[i].full

Done(fl, i, answer) == [fl EXCEPT ![i].pc = "done", ![i].answer = answer]

InitConcurrent ==
    /\ fs \in Trees
    /\ dirs = {}
    /\ pc = "idle"
    /\ req = <<>>
    /\ raw \in ConcDocs
    /\ content = <<>>
    /\ resp = NoAnswer
    /\ rw = NoRewrite
    /\ arg = <<>>
    /\ ret = <<>>
    /\ inflight = [i \in Ids |-> NotStarted]

\* lines 221-223
Receive(i) ==
    /\ inflight[i].pc = "idle"
    /\ \E relpath \in ConcRelpaths :
          inflight' = [inflight EXCEPT ![i].pc = "resolved", ![i].relpath = relpath,
                                       ![i].full = ServeTarget(relpath)]
    /\ UNCHANGED <<fs, dirs, pc, req, raw, content, resp, rw, arg, ret>>

\* lines 224-229
CheckBounds(i) ==
    /\ inflight[i].pc = "resolved"
    /\ inflight' = IF ~ServeInBounds(TargetOf(inflight, i))
                   THEN Done(inflight, i, Answer(403, NoFile, "none", <<>>, FALSE))
                   ELSE [inflight EXCEPT ![i].pc = "sending"]
    /\ UNCHANGED <<fs, dirs, pc, req, raw, content, resp, rw, arg, ret>>

\* lines 207-211 and 215
StatFile(i) ==
    /\ inflight[i].pc = "sending"
    /\ \E full \in {TargetOf(inflight, i)} :
          inflight' = IF ~Exists(fs, full) \/ ~IsFile(fs, full)
                      THEN Done(inflight, i, Answer(404, full, "none", <<>>, TRUE))
                      ELSE IF GuessType(full) = "text/html"
                      THEN [inflight EXCEPT ![i].pc = "reading"]
                      ELSE Done(inflight, i,
                                Answer(200, full, GuessType(full), BytesOf(full), FALSE))
    /\ UNCHANGED <<fs, dirs, pc, req, raw, content, resp, rw, arg, ret>>

\* line 212
ReadFile(i) ==
    /\ inflight[i].pc = "reading"
    /\ inflight' = [inflight EXCEPT ![i].pc = "rewriting", ![i].txt = ReadText(raw)]
    /\ UNCHANGED <<fs, dirs, pc, req, raw, content, resp, rw, arg, ret>>

\* lines 213-214
RewriteAndRespond(i) ==
    /\ inflight[i].pc = "rewriting"
    /\ inflight' = Done(inflight, i,
                        HtmlAnswer(TargetOf(inflight, i),
                                   RewriteHtmlUrls(inflight[i].txt, TargetOf(inflight, i), fs)).answer)
    /\ UNCHANGED <<fs, dirs, pc, req, raw, content, resp, rw, arg, ret>>

NextConcurrent ==
    \E i \in Ids :
        \/ Receive(i) \/ CheckBounds(i) \/ StatFile(i) \/ ReadFile(i) \/ RewriteAndRespond(i)

SpecConcurrent == InitConcurrent /\ [][NextConcurrent]_vars

-----------------------------------------------------------------------------
(* The helpers called on their own *)

SegNames == { SUB001, SUB002, FIGURES, <<"sub-">> }

RECURSIVE SeqsUpTo(_, _)
SeqsUpTo(S, n) ==
    IF n = 0 THEN {<<>>}
    ELSE LET R == SeqsUpTo(S, n - 1) IN R \cup {Append(r, x) : r \in R, x \in S}

PathInputs == SeqsUpTo(SegNames, MaxSegs)

SchemeUnits == {"https", "http", ":", "/", "h"}

SchemeUrls == SeqsUpTo(SchemeUnits, MaxUrlUnits)

SubjectTokens == { SUB001, SUB002, <<"sub-", "001", ".", "x">> }

\* the prefixes lines 177-180 look for
CrossSubjectPrefixes ==
    { <<".", "/">> \o T(X) \o T(DotDot) \o T(DotDot) \o T(Y) \o T(FIGURES)
        : X \in SubjectTokens, Y \in SubjectTokens }

FiguresPrefixes(lead) == { lead \o T(X) \o T(FIGURES) : X \in SubjectTokens }

KnownBadPrefixes ==
    CrossSubjectPrefixes \cup FiguresPrefixes(<<".", ".", "/">>)
        \cup FiguresPrefixes(<<".", "/">>) \cup FiguresPrefixes(<<>>)

\* beginnings that are close to a known prefix and are none
OtherPrefixes ==
    { <<>>,
      <<"/">> \o T(SUB002) \o T(FIGURES),
      <<"x", "/">> \o T(SUB002) \o T(FIGURES),
      <<"sub-", "/">> \o T(FIGURES),
      T(DotDot) \o T(DotDot) \o T(SUB002) \o T(FIGURES),
      T(Dot) \o T(Dot) \o T(SUB002) \o T(FIGURES),
      T(SUB002) \o T(SUB002) \o T(FIGURES),
      T(Dot) \o T(SUB002) \o T(DotDot) \o T(SUB002) \o T(FIGURES),
      T(Dot) \o T(SUB002) \o T(DotDot) \o T(DotDot) \o T(SUB002),
      T(SUB002) \o T(DotDot) \o T(DotDot) \o T(SUB002) \o T(FIGURES),
      T(DotDot) \o T(SUB002) \o FIGURES,
      T(Dot) \o T(<<"sub-">>) \o T(DotDot) \o T(DotDot) \o T(SUB002) \o T(FIGURES) }

PrefixTails == {d \o l : d \in DirSeqs(MaxTailDirs), l \in Leaves}

PrefixUrls == {h \o t : h \in KnownBadPrefixes \cup OtherPrefixes, t \in PrefixTails}

DotUnits == {".", "/", "a"}

DotUrls == SeqsUpTo(DotUnits, MaxDotUnits)

ExtLeads == { <<>>, <<" ">>, <<" ", " ">> }

ExtHeads ==
    { <<>>, <<"http">>, <<"HTTP">>, <<"https">>, <<"HTTPS">>, <<"data">>, <<"Data">>,
      <<"mailto">>, <<"javascript">>, <<"JAVASCRIPT">>, <<"ftp">>, <<"#">>,
      <<"/", "abs">>, <<"x", "http">>, <<"x", "#">> }

ExtSeps == { <<>>, <<":">>, <<":", "/">>, <<":", "/", "/">>, <<"/", "/">>, <<" ", ":">> }

ExtUrls ==
    { l \o h \o p \o t : l \in ExtLeads, h \in ExtHeads, p \in ExtSeps,
                         t \in SeqsUpTo({"x", "/", " "}, MaxExtTail) }

InitPure ==
    /\ fs = {}
    /\ dirs = {}
    /\ pc = "idle"
    /\ req = <<>>
    /\ raw = <<>>
    /\ content = <<>>
    /\ inflight = <<>>
    /\ resp = NoAnswer
    /\ rw = NoRewrite
    /\ arg = <<>>
    /\ ret = <<>>

CallNormalize ==
    /\ pc = "idle"
    /\ \E p \in PathInputs :
          /\ arg' = p
          /\ ret' = NormalizeDuplicateSubdirs(p)
    /\ pc' = "normalize"
    /\ UNCHANGED <<fs, dirs, raw, inflight, req, content, resp, rw>>

CallRepair ==
    /\ pc = "idle"
    /\ \E u \in SchemeUrls :
          /\ arg' = u
          /\ ret' = RepairScheme(u)
    /\ pc' = "repair"
    /\ UNCHANGED <<fs, dirs, raw, inflight, req, content, resp, rw>>

CallCollapsePrefixes ==
    /\ pc = "idle"
    /\ \E u \in PrefixUrls :
          /\ arg' = u
          /\ ret' = CollapseKnownBadPrefixes(u)
    /\ pc' = "prefixes"
    /\ UNCHANGED <<fs, dirs, raw, inflight, req, content, resp, rw>>

CallCollapseParents ==
    /\ pc = "idle"
    /\ \E u \in DotUrls :
          /\ arg' = u
          /\ ret' = CollapseParentRefs(u)
    /\ pc' = "parents"
    /\ UNCHANGED <<fs, dirs, raw, inflight, req, content, resp, rw>>

CallIsExternal ==
    /\ pc = "idle"
    /\ \E u \in ExtUrls :
          /\ arg' = u
          /\ ret' = <<IsExternal(u)>>
    /\ pc' = "external"
    /\ UNCHANGED <<fs, dirs, raw, inflight, req, content, resp, rw>>

\* the inline loop of repl on the parts of a resolved path
CallInlineNormalize ==
    /\ pc = "idle"
    /\ \E p \in PathInputs :
          /\ arg' = p
          /\ ret' = InlineNormalize(p)
    /\ pc' = "inline"
    /\ UNCHANGED <<fs, dirs, raw, inflight, req, content, resp, rw>>

NextPure ==
    \/ CallNormalize \/ CallRepair \/ CallCollapsePrefixes \/ CallCollapseParents
    \/ CallIsExternal \/ CallInlineNormalize

SpecPure == InitPure /\ [][NextPure]_vars

-----------------------------------------------------------------------------
(* flux_notebooks/config.py: Settings.from_env *)

\* the working directory and the home directory of the process
CWD == <<<<"app">>>>
HOME == <<<<"home">>, <<"u">>>>

\* an environment variable: unset, or set to a text
Unset == [set |-> FALSE, val |-> <<>>]
SetTo(t) == [set |-> TRUE, val |-> t]

\* os.environ.get(name, default)
EnvGet(v, default) == IF v.set THEN v.val ELSE default

\* Path(text): absolute or relative, with its segments
PathOf(t) == [abs |-> IsAbs(t), segs |-> Segs(t)]

\* Path.expanduser(): a leading "~" segment is replaced by the home directory
ExpandUser(p) ==
    IF ~p.abs /\ p.segs # <<>> /\ Head(p.segs) = <<"~">>
    THEN [abs |-> TRUE, segs |-> HOME \o Tail(p.segs)]
    ELSE p

\* Path.resolve(): a relative path is taken from the working directory
ResolveAny(p) == Resolve(IF p.abs THEN p.segs ELSE CWD \o p.segs)

\* Path(text).expanduser().resolve()
ConfiguredPath(t) == ResolveAny(ExpandUser(PathOf(t)))

\* the exception outdir.mkdir(parents=True, exist_ok=True) ends with, or "none"
MkdirOutcome(p, tree) ==
    IF p \in tree THEN "FileExistsError"
    ELSE IF \E k \in 1..(Len(p) - 1) : SubSeq(p, 1, k) \in tree THEN "NotADirectoryError"
    ELSE "none"

NoSettings == [dataset_root |-> <<>>, outdir |-> <<>>]

DefaultOutdir == <<"book", "/", "notebooks">>

\* lines 27-34
FromEnvOutdir(dataset_root, outdir, tree) ==
    IF MkdirOutcome(outdir, tree) # "none"
    THEN [raised |-> MkdirOutcome(outdir, tree), settings |-> NoSettings, made |-> {}]
    ELSE [raised |-> "none",
          settings |-> [dataset_root |-> StrPath(dataset_root), outdir |-> StrPath(outdir)],
          made |-> {outdir}]

\* lines 19-25
FromEnvRoot(root_env, outdir_env, tree) ==
    IF root_env = <<>>
    THEN [raised |-> "RuntimeError", settings |-> NoSettings, made |-> {}]
    ELSE FromEnvOutdir(ConfiguredPath(root_env), ConfiguredPath(outdir_env), tree)

\* Settings.from_env() under the environment env
FromEnv(env, tree) ==
    FromEnvRoot(Strip(EnvGet(env.FLUX_DATASET_ROOT, <<>>)),
                Strip(EnvGet(env.FLUX_OUTDIR, DefaultOutdir)), tree)

RootEnvs ==
    { Unset, SetTo(<<>>), SetTo(<<" ">>), SetTo(<<" ", " ">>),
      SetTo(<<"/", "ds">>), SetTo(<<" ", "/", "ds", " ">>), SetTo(<<"ds">>),
      SetTo(<<"~", "/", "ds">>), SetTo(<<".", ".", "/", "ds">>),
      SetTo(<<"/", "ds", "/", "qc", "/", ".", ".">>) }

OutdirEnvs ==
    { Unset, SetTo(<<>>), SetTo(<<" ">>),
      SetTo(<<"/", "out">>), SetTo(<<"out", "/", "nb">>), SetTo(<<"~", "/", "nb">>),
      SetTo(<<"/", "ds", "/", "qc">>),
      SetTo(StrPath(F_fig1)), SetTo(StrPath(F_fig1) \o <<"/", "nb">>),
      SetTo(StrPath(F_fp) \o <<"/", ".", ".", "/", "nb">>) }

InitConfig ==
    /\ fs \in Trees
    /\ dirs = {}
    /\ pc = "idle"
    /\ req = <<>>
    /\ raw = <<>>
    /\ content = <<>>
    /\ inflight = <<>>
    /\ resp = NoAnswer
    /\ rw = NoRewrite
    /\ arg = <<>>
    /\ ret = <<>>

\* one call of Settings.from_env()
CallFromEnv ==
    /\ pc = "idle"
    /\ \E r \in RootEnvs : \E o \in OutdirEnvs :
          /\ arg' = [FLUX_DATASET_ROOT |-> r, FLUX_OUTDIR |-> o]
          /\ ret' = FromEnv([FLUX_DATASET_ROOT |-> r, FLUX_OUTDIR |-> o], fs)
          /\ dirs' = dirs \cup FromEnv([FLUX_DATASET_ROOT |-> r, FLUX_OUTDIR |-> o], fs).made
    /\ pc' = "from_env"
    /\ UNCHANGED <<fs, raw, inflight, req, content, resp, rw>>

\* app.py line 21: the directory app.py is in
ROOT == <<<<"srv">>>>

\* os.environ.setdefault(name, default): a variable that is set keeps its value
SetDefault(v, default) == IF v.set THEN v ELSE SetTo(default)

\* lines 22-23: the environment after the two setdefault calls
StartUpEnviron(env) ==
    [FLUX_DATASET_ROOT |-> SetDefault(env.FLUX_DATASET_ROOT,
                                      StrPath(ROOT \o <<<<"superdemo_real">>>>)),
     FLUX_REDCAP_ROOT |-> SetDefault(env.FLUX_REDCAP_ROOT,
                                     StrPath(ROOT \o <<<<"data">>, <<"redcap">>>>)),
     FLUX_OUTDIR |-> env.FLUX_OUTDIR]

\* lines 26-27, given the outcome s of Settings.from_env() at line 25
StartUpRoots(environ, s) ==
    IF s.raised # "none"
    THEN [raised |-> s.raised, environ |-> environ, made |-> s.made,
          DATASET_ROOT |-> <<>>, DATA_ROOT |-> <<>>]
    ELSE [raised |-> "none", environ |-> environ, made |-> s.made,
          DATASET_ROOT |-> ResolveAny(PathOf(s.settings.dataset_root)),
          DATA_ROOT |-> Resolve(ResolveAny(PathOf(s.settings.dataset_root))
                                \o <<<<"qc">>, <<"mriqc">>>>)]

\* lines 21-27: the set-up the module runs when it is loaded
StartUp(env, tree) == StartUpRoots(StartUpEnviron(env), FromEnv(StartUpEnviron(env), tree))

RedcapEnvs == { Unset, SetTo(<<>>), SetTo(<<"/", "rc">>) }

\* app.py is loaded under some environment
LoadApp ==
    /\ pc = "idle"
    /\ \E r \in RootEnvs : \E o \in OutdirEnvs : \E c \in RedcapEnvs :
          /\ arg' = [FLUX_DATASET_ROOT |-> r, FLUX_REDCAP_ROOT |-> c, FLUX_OUTDIR |-> o]
          /\ ret' = StartUp([FLUX_DATASET_ROOT |-> r, FLUX_REDCAP_ROOT |-> c,
                             FLUX_OUTDIR |-> o], fs)
          /\ dirs' = dirs \cup StartUp([FLUX_DATASET_ROOT |-> r, FLUX_REDCAP_ROOT |-> c,
                                        FLUX_OUTDIR |-> o], fs).made
    /\ pc' = "startup"
    /\ UNCHANGED <<fs, raw, inflight, req, content, resp, rw>>

NextConfig == CallFromEnv \/ LoadApp

SpecConfig == InitConfig /\ [][NextConfig]_vars

-----------------------------------------------------------------------------
(* Vocabulary of the properties *)

\* p is root or lies below it, segment by segment
Under(p, root) == Len(p) >= Len(root) /\ \A i \in 1..Len(root) : p[i] = root[i]

\* the index of the first adjacent pair of identical "sub-" segments, or 0
FirstDupIndex(p) ==
    LET S == {i \in 1..(Len(p) - 1) : p[i] = p[i + 1] /\ p[i][1] = "sub-"}
    IN  IF S = {} THEN 0 ELSE Min(S)

WithoutFirstDup(p) ==
    LET i == FirstDupIndex(p)
    IN  IF i = 0 THEN p ELSE [j \in 1..(Len(p) - 1) |-> IF j < i THEN p[j] ELSE p[j + 1]]

\* the path a request names: joined onto DATA_ROOT, ".." resolved
Requested == Resolve(Join(DATA_ROOT, req))

Rewritten == pc = "served" /\ rw.ran /\ ~rw.raised

InAttrs == Matches(content)
OutAttrs == Matches(rw.text)

\* the path a canonical URL names
NamedBy(url) == Resolve(Join(DATA_ROOT, Drop(url, Len(CanonicalPrefix))))

-----------------------------------------------------------------------------
(* C1  Rewriter confinement: every attribute of the output of              *)
(* _rewrite_html_urls that carries a canonical /mriqc_files/<rel> URL which *)
(* the input did not already carry names a path under DATA_ROOT.            *)
C1_RewrittenLinksConfined ==
    Rewritten =>
        \A k \in 1..Len(OutAttrs) :
            ( /\ StartsWith(OutAttrs[k].url, CanonicalPrefix)
              /\ \A j \in 1..Len(InAttrs) : InAttrs[j].url # OutAttrs[k].url )
            => Under(NamedBy(OutAttrs[k].url), DATA_ROOT)

(* C2  Traversal rejection on /mriqc_files: a request whose joined,        *)
(* resolved and duplicate-normalized path is not under DATA_ROOT is         *)
(* answered 403, and every 200 is for that path, a regular file under       *)
(* DATA_ROOT; a sibling directory whose name starts with DATA_ROOT's name   *)
(* is rejected too.                                                         *)
C2_TraversalRejected ==
    pc = "served" =>
        /\ ~Under(WithoutFirstDup(Requested), DATA_ROOT) => resp.status = 403
        /\ resp.status = 200 =>
              /\ resp.file = WithoutFirstDup(Requested)
              /\ Under(resp.file, DATA_ROOT)
              /\ resp.file \in fs

C2_Witness ==
    /\ pc = "served"
    /\ F_sib \in fs
    /\ WithoutFirstDup(Requested) = F_sib
    /\ resp.status = 403

(* C3  External passthrough: the value of every external attribute of the  *)
(* input is the value of an attribute of the output, byte for byte.         *)
C3_ExternalValueUnchanged ==
    Rewritten =>
        \A j \in 1..Len(InAttrs) :
            IsExternal(InAttrs[j].url) =>
                \E k \in 1..Len(OutAttrs) : OutAttrs[k].url = InAttrs[j].url

(* C4  Unresolvable links are left as written: the whole assignment of     *)
(* every attribute that resolves neither at the primary nor at the          *)
(* fallback path stands in the output byte for byte.                        *)
C4_UnresolvedLeftAsWritten ==
    Rewritten =>
        \A j \in 1..Len(rw.links) :
            rw.links[j].kind = "unresolved" =>
                \E k \in 1..Len(OutAttrs) : OutAttrs[k].text = rw.links[j].orig

(* C5  Out-of-bounds links degrade gracefully: _rewrite_html_urls never    *)
(* raises and no request fails because of a link.                           *)
C5_RewriterNeverRaises ==
    pc = "served" => ~rw.raised /\ resp.status # 500

(* C6  Resolvable links become canonical: for every attribute whose        *)
(* collapsed, joined and normalized URL names an existing file F under      *)
(* DATA_ROOT the output holds attr="/mriqc_files/<F relative to DATA_ROOT>".*)
C6_ResolvedBecomesCanonical ==
    Rewritten =>
        \A j \in 1..Len(rw.links) :
            rw.links[j].kind = "primary" =>
                \E k \in 1..Len(OutAttrs) :
                    OutAttrs[k].text =
                        Emit(rw.links[j].attr,
                             CanonicalPrefix
                                \o AsPosix(SubSeq(rw.links[j].full, Len(DATA_ROOT) + 1,
                                                  Len(rw.links[j].full))))

\* every attribute of t is written attr="/mriqc_files/..."
AllCanonical(t) ==
    LET ms == Matches(t)
    IN  /\ ms # <<>>
        /\ \A k \in 1..Len(ms) :
              /\ StartsWith(ms[k].url, CanonicalPrefix)
              /\ ms[k].text = Emit(ms[k].attr, ms[k].url)

(* C7  Idempotence of the rewrite: a document whose links are all already  *)
(* in canonical /mriqc_files/... form is returned byte-identical.           *)
C7_CanonicalDocumentUnchanged ==
    (Rewritten /\ AllCanonical(content)) => rw.text = content

(* C8  Duplicate-subject collapse: _normalize_duplicate_subdirs removes    *)
(* exactly one segment of the first adjacent pair of identical "sub-"       *)
(* segments and keeps every other segment in order; a path without such a   *)
(* pair is returned unchanged.                                              *)
C8_FirstDuplicateRemoved ==
    pc = "normalize" =>
        LET i == FirstDupIndex(arg)
        IN  IF i = 0 THEN ret = arg
            ELSE /\ Len(ret) = Len(arg) - 1
                 /\ \A j \in 1..Len(ret) : ret[j] = IF j < i THEN arg[j] ELSE arg[j + 1]

C8_Witness ==
    /\ pc = "normalize"
    /\ arg = <<FIGURES, SUB002, SUB002, FIGURES>>
    /\ ret = <<FIGURES, SUB002, FIGURES>>

(* C9  The duplicate segment is collapsed before the existence check on    *)
(* /mriqc_files: for a request whose resolved path has an adjacent          *)
(* duplicated subject segment, the file tested and served is the one at the *)
(* path with the first duplicate removed: 200 with its bytes when it is a   *)
(* regular (non-HTML) file, 404 when it is none.                            *)
C9_DuplicateCollapsedBeforeExistenceCheck ==
    (pc = "served" /\ FirstDupIndex(Requested) > 0
        /\ Under(WithoutFirstDup(Requested), DATA_ROOT)) =>
        LET d == WithoutFirstDup(Requested)
        IN  /\ resp.file = d
            /\ d \notin fs => resp.status = 404
            /\ (d \in fs /\ GuessType(d) # "text/html") =>
                  resp.status = 200 /\ resp.body = BytesOf(d)

C9_Witness ==
    /\ pc = "served"
    /\ req = T(SUB002) \o T(SUB002) \o T(FIGURES) \o XSVG
    /\ resp.status = 200
    /\ resp.body = BytesOf(F_fig2)

(* C10  Scheme repair: a URL that begins with http:/ or https:/ followed   *)
(* by a character other than "/" gets exactly one "/" inserted after the    *)
(* colon-slash, every other URL is unchanged, and repairing twice equals    *)
(* repairing once.                                                          *)
C10_SchemeRepair ==
    pc = "repair" =>
        LET malformed ==
                /\ Len(arg) >= 4
                /\ arg[1] \in {"http", "https"}
                /\ arg[2] = ":" /\ arg[3] = "/" /\ arg[4] # "/"
        IN  /\ ret = IF malformed
                     THEN SubSeq(arg, 1, 3) \o <<"/">> \o SubSeq(arg, 4, Len(arg))
                     ELSE arg
            /\ RepairScheme(ret) = ret

C10_Witness ==
    /\ pc = "repair"
    /\ arg = <<"https", ":", "/", "h", "/">>
    /\ ret = <<"https", ":", "/", "/", "h", "/">>

(* C11  Missing file on /mriqc_files: a request whose normalized path lies  *)
(* under DATA_ROOT but is no regular file of the tree (it is missing, or it *)
(* is a directory) is answered 404; a request whose normalized path lies    *)
(* outside DATA_ROOT is answered 403, whether a file exists there or not.   *)
C11_MissingFileIs404 ==
    pc = "served" =>
        LET d == WithoutFirstDup(Requested)
        IN  /\ (Under(d, DATA_ROOT) /\ d \notin fs) => resp.status = 404
            /\ ~Under(d, DATA_ROOT) => resp.status = 403

C11_Witness ==
    /\ pc = "served"
    /\ req = T(SUB001) \o T(FIGURES)
    /\ F_fig1 \in fs
    /\ resp.status = 404

(* C12  Dispatch by content type on /mriqc_files: a request for a regular   *)
(* file under DATA_ROOT whose extension says text/html is answered 200 as   *)
(* text/html with the output of _rewrite_html_urls on the file's text as    *)
(* its body; a request for any other regular file is answered 200 with the  *)
(* file's bytes and the rewriter is not run.                                *)
C12_DispatchByContentType ==
    (pc = "served" /\ Under(WithoutFirstDup(Requested), DATA_ROOT)
        /\ WithoutFirstDup(Requested) \in fs) =>
        LET f == WithoutFirstDup(Requested)
        IN  IF GuessType(f) = "text/html"
            THEN /\ resp.status = 200 /\ resp.mime = "text/html"
                 /\ rw.ran /\ ~rw.raised
                 /\ resp.body = rw.text
            ELSE /\ resp.status = 200 /\ resp.mime = GuessType(f)
                 /\ resp.body = BytesOf(f)
                 /\ ~rw.ran

(* C13  Traversal guard on /static: a subpath whose resolved path is not    *)
(* the dataset root or a descendant of it is answered 403, a sibling        *)
(* directory whose name starts with the root's name included; 404 is        *)
(* answered only for a path inside the root.                                *)
C13_StaticTraversalGuard ==
    pc = "static" =>
        LET full_path == Resolve(Join(DATASET_ROOT, req))
        IN  /\ ~Under(full_path, DATASET_ROOT) => resp.status = 403
            /\ resp.status = 404 => Under(full_path, DATASET_ROOT)

Blank(t) == \A i \in 1..Len(t) : t[i] = " "

(* C15  Configuration fails fast: Settings.from_env raises RuntimeError and *)
(* returns no Settings when FLUX_DATASET_ROOT is unset or blank; when it is *)
(* set to a non-blank value from_env returns Settings whose dataset_root    *)
(* and outdir are absolute paths, outdir being <cwd>/book/notebooks when    *)
(* FLUX_OUTDIR is unset.                                                    *)
C15_ConfigFailsFast ==
    pc = "from_env" =>
        IF ~arg.FLUX_DATASET_ROOT.set \/ Blank(arg.FLUX_DATASET_ROOT.val)
        THEN ret.raised = "RuntimeError" /\ ret.settings = NoSettings
        ELSE /\ ret.raised = "none"
             /\ IsAbs(ret.settings.dataset_root)
             /\ IsAbs(ret.settings.outdir)
             /\ ~arg.FLUX_OUTDIR.set =>
                   ret.settings.outdir = <<"/", "app", "/", "book", "/", "notebooks">>

\* t with one segment of every adjacent pair of identical "sub-X/" segments
\* removed, scanning from position i, and nothing else changed
RECURSIVE IdenticalPairsCollapsed(_, _)
IdenticalPairsCollapsed(t, i) ==
    IF i > Len(t) THEN <<>>
    ELSE LET a == SubSegEnd(t, i)
             b == IF a > 0 THEN SubSegEnd(t, a + 1) ELSE 0
         IN  IF b > 0 /\ SubSeq(t, i, a) = SubSeq(t, a + 1, b)
             THEN SubSeq(t, i, a) \o IdenticalPairsCollapsed(t, b + 1)
             ELSE <<t[i]>> \o IdenticalPairsCollapsed(t, i + 1)

(* C16  The final cleanup pass touches only identical pairs: the text       *)
(* _rewrite_html_urls returns is the text after the attribute               *)
(* substitutions with one segment removed wherever two adjacent segments    *)
(* are the same "sub-X/sub-X/"; a pair of different subject segments and    *)
(* all other text stand as they were.                                       *)
C16_CleanupOnlyIdenticalPairs ==
    Rewritten => rw.text = IdenticalPairsCollapsed(rw.subst, 1)

\* the first segment of a path that starts with "sub-", "sub-001" without one
RECURSIVE FirstSubjectOf(_)
FirstSubjectOf(p) ==
    IF p = <<>> THEN SUB001
    ELSE IF Head(p)[1] = "sub-" THEN Head(p)
    ELSE FirstSubjectOf(Tail(p))

(* C17  Fallback resolution: for every non-external attribute of a served   *)
(* HTML file, the link is resolved by the fallback exactly when its primary *)
(* path does not exist and DATA_ROOT/<subject>/figures/<base filename of    *)
(* the URL> does, <subject> being the first "sub-" segment of the HTML      *)
(* file's path ("sub-001" without one); the replacement then is             *)
(* attr="/mriqc_files/<subject>/figures/<base filename>"; the link is       *)
(* unresolved exactly when both paths are missing.                          *)
C17_FallbackResolution ==
    (pc = "served" /\ rw.ran) =>
        \A j \in 1..Len(rw.links) :
            LET l == rw.links[j]
                subj == FirstSubjectOf(resp.file)
                base == Name(Strip(l.raw))
                alt == JoinName(DATA_ROOT \o <<subj, FIGURES>>, base)
                missing == ~Exists(fs, ReplPrimary(l.url, resp.file))
            IN  l.kind # "external" =>
                  /\ l.kind = "fallback" <=> (missing /\ Exists(fs, alt))
                  /\ l.kind = "unresolved" <=> (missing /\ ~Exists(fs, alt))
                  /\ l.kind = "fallback" =>
                        l.out = Emit(l.attr, CanonicalPrefix \o subj
                                               \o <<"/", "figures", "/">> \o base)

C17_Witness ==
    /\ pc = "served"
    /\ resp.file = F_rep2
    /\ content = Doc1(T(SUB001) \o XSVG)
    /\ F_fig2 \in fs
    /\ rw.links[1].kind = "fallback"
    /\ rw.links[1].out = Emit("src", CanonicalPrefix \o T(SUB002) \o T(FIGURES) \o XSVG)

(* C18  Known-bad-prefix collapse: a URL that begins with one of            *)
(* "./sub-X/../../sub-Y/figures/", "../sub-X/figures/", "./sub-X/figures/"  *)
(* or "sub-X/figures/" becomes "sub-001/figures/" followed by what came     *)
(* after the prefix, whatever X and Y are; a URL that begins with none of   *)
(* them is unchanged; collapsing the result again changes nothing.          *)
C18_KnownBadPrefixCollapse ==
    pc = "prefixes" =>
        /\ \A pre \in KnownBadPrefixes :
              StartsWith(arg, pre) =>
                  ret = <<"sub-", "001", "/", "figures", "/">> \o Drop(arg, Len(pre))
        /\ (\A pre \in KnownBadPrefixes : ~StartsWith(arg, pre)) => ret = arg
        /\ CollapseKnownBadPrefixes(ret) = ret

C18_Witness ==
    /\ pc = "prefixes"
    /\ arg = T(Dot) \o T(SUB002) \o T(DotDot) \o T(DotDot) \o T(<<"sub-", "001", ".", "x">>)
               \o T(FIGURES) \o T(SUB002) \o XSVG
    /\ ret = T(SUB001) \o T(FIGURES) \o T(SUB002) \o XSVG

\* t with "../" removed wherever another "../" follows it, until none does
RECURSIVE SqueezedParents(_)
SqueezedParents(t) ==
    LET S == {i \in 1..Len(t) : LitAt(t, i, <<".", ".", "/", ".", ".", "/">>)}
    IN  IF S = {} THEN t
        ELSE SqueezedParents(SubSeq(t, 1, Min(S) - 1) \o Drop(t, Min(S) + 2))

(* C19  Parent-reference collapse: the one substitution pass puts exactly   *)
(* one "../" for every maximal run of "../" and changes nothing else: the   *)
(* result is the URL with repeated "../" squeezed to a fixed point, no      *)
(* "../" of the result is followed by another, and a second pass returns    *)
(* the same URL.                                                            *)
C19_ParentRefsCollapsed ==
    pc = "parents" =>
        /\ ret = SqueezedParents(arg)
        /\ \A i \in 1..Len(ret) : ~LitAt(ret, i, <<".", ".", "/", ".", ".", "/">>)
        /\ CollapseParentRefs(ret) = ret

C19_Witness ==
    /\ pc = "parents"
    /\ arg = <<".", ".", "/", ".", ".", "/", ".", ".", "/">>
    /\ ret = <<".", ".", "/">>

(* C20  Order of the resolve pipeline: for every attribute the scheme is    *)
(* repaired first and the external test is made on the repaired URL; an     *)
(* external URL, one that became external through the repair included, is   *)
(* emitted as repaired and is neither collapsed nor resolved nor tested for *)
(* existence; any other URL has its known bad prefix collapsed, then its    *)
(* parent references, and is then joined onto the HTML file's directory and *)
(* duplicate-normalized before the existence check and the fallback.        *)
C20_PipelineOrder ==
    (pc = "served" /\ rw.ran) =>
        \A j \in 1..Len(rw.links) :
            LET l == rw.links[j]
                repaired == RepairScheme(Strip(l.raw))
                collapsed == CollapseParentRefs(CollapseKnownBadPrefixes(repaired))
                joined == InlineNormalize(Resolve(Join(Parent(resp.file), collapsed)))
            IN  IF IsExternal(repaired)
                THEN /\ l.kind = "external" /\ l.out = Emit(l.attr, repaired)
                     /\ l.full = <<>> /\ ~l.warned
                ELSE /\ l.kind # "external" /\ l.url = collapsed
                     /\ l.kind = "primary" => (l.full = joined /\ Exists(fs, joined))
                     /\ l.kind \in {"fallback", "unresolved"} => ~Exists(fs, joined)

C20_Witness ==
    /\ pc = "served"
    /\ content = Doc1(<<"https", ":", "/", "h", "/">> \o XSVG)
    /\ rw.links[1].kind = "external"
    /\ rw.links[1].out = Emit("src", <<"https", ":", "/", "/", "h", "/">> \o XSVG)

\* str.strip().lower() spelled out: the text between the first and the last
\* unit that is no white space, unit by unit in lower case
Trimmed(u) ==
    LET S == {i \in 1..Len(u) : u[i] # " "}
    IN  IF S = {} THEN <<>>
        ELSE LET a == Min(S)
                 b == CHOOSE i \in S : \A j \in S : j <= i
             IN  [k \in 1..(b - a + 1) |->
                     CASE u[a + k - 1] \in {"HTTP"} -> "http"
                       [] u[a + k - 1] \in {"HTTPS"} -> "https"
                       [] u[a + k - 1] \in {"Data"} -> "data"
                       [] u[a + k - 1] \in {"JAVASCRIPT"} -> "javascript"
                       [] OTHER -> u[a + k - 1]]

(* C21  External test: _is_external(u) is true exactly when u, trimmed and  *)
(* in lower case, starts with "http://", "https://", "data:", "mailto:",    *)
(* "javascript:" or "#".                                                    *)
C21_ExternalTest ==
    pc = "external" =>
        LET t == Trimmed(arg)
        IN  ret[1] <=>
              \/ StartsWith(t, <<"http", ":", "/", "/">>)
              \/ StartsWith(t, <<"https", ":", "/", "/">>)
              \/ StartsWith(t, <<"data", ":">>)
              \/ StartsWith(t, <<"mailto", ":">>)
              \/ StartsWith(t, <<"javascript", ":">>)
              \/ StartsWith(t, <<"#">>)

C21_Witness ==
    /\ pc = "external"
    /\ arg = <<" ", " ", "HTTP", ":", "/", "/", "x">>
    /\ ret = <<TRUE>>

\* the number of adjacent pairs of identical "sub-" segments of p
DupPairs(p) == Cardinality({i \in 1..(Len(p) - 1) : p[i] = p[i + 1] /\ p[i][1] = "sub-"})

NotSub(seg) == seg[1] # "sub-"

(* C22  Single-pass boundary of the duplicate collapse:                     *)
(* _normalize_duplicate_subdirs removes at most one segment, and never one  *)
(* that does not start with "sub-"; a path with adjacent identical "sub-"   *)
(* segments loses exactly one such pair, so that a triple keeps a pair, a   *)
(* later pair is kept, and the operation is then not idempotent.            *)
C22_SinglePassBoundary ==
    pc = "normalize" =>
        /\ Len(arg) - Len(ret) \in {0, 1}
        /\ SelectSeq(ret, NotSub) = SelectSeq(arg, NotSub)
        /\ DupPairs(arg) = 0 => ret = arg
        /\ DupPairs(arg) > 0 => DupPairs(ret) = DupPairs(arg) - 1
        /\ DupPairs(arg) > 1 => NormalizeDuplicateSubdirs(ret) # ret

C22_Witness ==
    /\ pc = "normalize"
    /\ arg = <<SUB001, SUB001, SUB001>>
    /\ ret = <<SUB001, SUB001>>

(* C30  The two duplicate-subject collapses agree: the inline segment loop  *)
(* of repl yields, for every path, the segment list that                    *)
(* _normalize_duplicate_subdirs yields.                                     *)
C30_CollapsesAgree ==
    pc = "inline" => ret = NormalizeDuplicateSubdirs(arg)

C30_Witness ==
    /\ pc = "inline"
    /\ arg = <<SUB002, SUB002, FIGURES, FIGURES>>
    /\ ret = <<SUB002, FIGURES, FIGURES>>

\* sub occurs in t
Contains(t, sub) == \E i \in 1..(Len(t) + 1) : LitAt(t, i, sub)

(* C23  Warning per unresolved attribute: in one call of _rewrite_html_urls *)
(* a warning is logged for an attribute exactly when it could not be        *)
(* resolved, and the entry names the URL as it is written in the HTML       *)
(* source and the HTML file.                                                *)
C23_WarningNamesUrlAndFile ==
    (pc = "served" /\ rw.ran) =>
        \A j \in 1..Len(rw.links) :
            /\ rw.links[j].warned <=> rw.links[j].kind = "unresolved"
            /\ rw.links[j].kind = "unresolved" =>
                  /\ Contains(rw.links[j].log, rw.links[j].raw)
                  /\ Contains(rw.links[j].log, StrPath(resp.file))

(* C24  Out-of-bounds is rejected silently: a request that serve_mriqc or   *)
(* serve_static answers with 403 logs no warning and has no file read or    *)
(* streamed; the warning for a missing file is logged only with a 404.      *)
C24_RejectedSilently ==
    pc \in {"served", "static"} =>
        /\ resp.status = 403 =>
              /\ ~resp.warned
              /\ ~rw.ran
              /\ resp.file = NoFile /\ resp.body = <<>>
        /\ resp.warned => resp.status = 404

C24_Witness ==
    /\ pc = "served"
    /\ F_out \in fs
    /\ Requested = F_out
    /\ resp.status = 403
    /\ ~resp.warned

\* the text in which every byte that does not decode is a replacement character
DecodedWithReplacement(bytes) ==
    [i \in 1..Len(bytes) |-> IF bytes[i] = InvalidByte THEN "U+FFFD" ELSE bytes[i]]

(* C25  Decode failure is tolerated by replacement: when the HTML file      *)
(* holds bytes that are not valid UTF-8 the request is answered 200 and the *)
(* text handed to the rewriter has a replacement character for each such    *)
(* byte, all other text kept in order.                                      *)
C25_DecodeByReplacement ==
    (pc = "served" /\ rw.ran /\ Contains(raw, <<InvalidByte>>)) =>
        /\ resp.status = 200
        /\ content = DecodedWithReplacement(raw)

(* C26  Statelessness under concurrency: in every interleaving of           *)
(* /mriqc_files requests the tree, the created directories and the files'   *)
(* bytes stay as they were, and the response of every finished request is   *)
(* the response serve_mriqc gives to that request handled alone.            *)
C26_StatelessUnderConcurrency ==
    [][ /\ fs' = fs /\ dirs' = dirs /\ raw' = raw
        /\ \A i \in Ids :
              inflight'[i].pc = "done" =>
                  inflight'[i].answer = ServeMriqcRun(inflight'[i].relpath, raw, fs).answer
      ]_vars

C26_Witness ==
    /\ inflight # <<>>
    /\ inflight[1].pc = "done" /\ inflight[2].pc = "done"
    /\ inflight[1].relpath = T(SUB001) \o RHTML
    /\ inflight[1].answer.status = 200
    /\ inflight[2].relpath = T(DotDot) \o <<"mriqc", "2", "/">> \o XSVG
    /\ inflight[2].answer.status = 403

(* C27  Default dataset root at start-up: with FLUX_DATASET_ROOT unset the  *)
(* set-up does not fail and the dataset root is <directory of app.py>/      *)
(* superdemo_real; FLUX_REDCAP_ROOT unset becomes <directory of app.py>/    *)
(* data/redcap; a variable that was set keeps its value; and DATA_ROOT is   *)
(* <dataset root>/qc/mriqc.                                                 *)
C27_DefaultRootsAtStartUp ==
    pc = "startup" =>
        /\ ~arg.FLUX_DATASET_ROOT.set =>
              /\ ret.raised = "none"
              /\ ret.DATASET_ROOT = ROOT \o <<<<"superdemo_real">>>>
        /\ ~arg.FLUX_REDCAP_ROOT.set =>
              ret.environ.FLUX_REDCAP_ROOT =
                  SetTo(<<"/", "srv", "/", "data", "/", "redcap">>)
        /\ arg.FLUX_DATASET_ROOT.set =>
              ret.environ.FLUX_DATASET_ROOT = arg.FLUX_DATASET_ROOT
        /\ arg.FLUX_REDCAP_ROOT.set =>
              ret.environ.FLUX_REDCAP_ROOT = arg.FLUX_REDCAP_ROOT
        /\ ret.raised = "none" =>
              ret.DATA_ROOT = ret.DATASET_ROOT \o <<<<"qc">>, <<"mriqc">>>>

(* C28  Rewrite-then-serve round trip: for every link rewritten to a        *)
(* canonical URL because an existing regular file F under DATA_ROOT was     *)
(* found, the URL standing in the final output starts with /mriqc_files/    *)
(* and, requested through serve_mriqc, is answered 200 with the bytes of F  *)
(* (stated for files that are not HTML, whose bytes are sent as they are),  *)
(* also when F lies below two adjacent directories named sub-...            *)
C28_RewrittenUrlServesItsFile ==
    (Rewritten /\ Len(OutAttrs) = Len(rw.links)) =>
        \A j \in 1..Len(rw.links) :
            ( /\ rw.links[j].kind \in {"primary", "fallback"}
              /\ IsFile(fs, rw.links[j].full)
              /\ GuessType(rw.links[j].full) # "text/html" ) =>
                /\ StartsWith(OutAttrs[j].url, CanonicalPrefix)
                /\ ServeMriqcRun(Drop(OutAttrs[j].url, Len(CanonicalPrefix)), <<>>, fs).answer
                      = Answer(200, rw.links[j].full, GuessType(rw.links[j].full),
                               BytesOf(rw.links[j].full), FALSE)

(* C29  Confinement on /fmriprep_files: every file serve_fmriprep serves    *)
(* with status 200 lies under <dataset_root>/derivatives/fmriprep, for      *)
(* every filename, the ones holding ".." segments included.                 *)
C29_FmriprepConfined ==
    (pc = "fmriprep" /\ resp.status = 200) =>
        Under(Resolve(resp.file), FMRIPREP_ROOT)

====
